---- MODULE Spec2Model ----
(***************************************************************************)
(* State-machine model of the OpenH264 shim                                *)
(* (homeassistant/components/openh264customh264/native/openh264_shim.c):   *)
(* h264_encoder_create, h264_encoder_encode, h264_encoder_force_idr and    *)
(* h264_encoder_destroy, acting on a heap of encoder_context_t objects and *)
(* on the engine instances (ISVCEncoder) they own.                         *)
(*                                                                         *)
(* One action models one whole call, made by a caller that is between two  *)
(* calls (pc = "idle") and left at pc = "returned" (or "crashed" when the  *)
(* call dies).  The variables op, arg, seen, ret, ops, fault, out_buf,     *)
(* out_size, is_keyframe, info, pic and param describe that call: its      *)
(* arguments, what it read from the context, what it returned, the         *)
(* allocator and engine operations it issued (in order), what the engine   *)
(* reported, and the memory behind its output pointers.  Return takes the  *)
(* caller back to "idle".                                                  *)
(*                                                                         *)
(* handles, destroyed and requested are the caller's side of the story:    *)
(* the handles create returned and destroy has not been given, the handles *)
(* destroy was given, and the handles on which force_idr succeeded since   *)
(* their last encode call that got past validation.  copies lists the      *)
(* memcpy calls of the last call, and unmatched is the number of encode    *)
(* calls that got past validation and returned, less the number of         *)
(* EncodeFrame invocations, over the whole run.                            *)
(*                                                                         *)
(* A call through a destroyed handle reads freed memory: what it reads is  *)
(* chosen freely, the call is marked in fault, and the program is not      *)
(* followed past it.                                                       *)
(***************************************************************************)
EXTENDS Integers, Sequences, FiniteSets, TLC

\* ---------------------------------------------------------------- bounds
\* number of heap slots that can hold an encoder_context_t (and of engines)
MaxCtx == 2
\* length of the caller's output buffer, and the largest declared capacity
BufLen == 2
\* the engine reports at most this many layers per frame
MaxLayers == 2

\* ------------------------------------------------------ program constants
H264_SUCCESS == 0
H264_ERROR_INVALID_PARAM == -1
H264_ERROR_MEMORY_ALLOC == -2
H264_ERROR_ENCODER_INIT == -3
H264_ERROR_ENCODE_FAILED == -4
H264_ERROR_NULL_ENCODER == -5
H264_ERROR_OUTPUT_BUFFER_TOO_SMALL == -6

\* the absent pointer
NULL == 0

\* the range of the 32-bit C int: 2^31 - 1 and -2^31, written so that no
\* intermediate value leaves that range
INT_MAX == (2^30 - 1) * 2 + 1
INT_MIN == -INT_MAX - 1

\* frame types an engine reports in SFrameBSInfo.eFrameType
FrameTypes == {"videoFrameTypeInvalid", "videoFrameTypeIDR", "videoFrameTypeI",
               "videoFrameTypeP", "videoFrameTypeSkip", "videoFrameTypeIPMixed"}

\* ------------------------------------------------------------- addresses
Addr == 1..MaxCtx
EngId == 1..MaxCtx

\* ---------------------------------------------------------- encoder_context_t
\* a slot that holds no context
NoCtx == [st |-> "free", encoder |-> NULL, width |-> 0, height |-> 0, fps |-> 0,
          bitrate |-> 0, keyint |-> 0, force_idr |-> 0]

\* calloc(1, sizeof(encoder_context_t)): a live, zero-filled context
ZeroCtx == [NoCtx EXCEPT !.st = "live"]

\* free(ctx): the memory belongs to the allocator again and its contents are
\* indeterminate; what a later read of it returns is chosen at that read
FreeCtx(c) == NoCtx

\* ------------------------------------------------------------ call records
NoArg == [h |-> NULL]
NoSeen == [encoder |-> NULL, force_idr |-> 0, width |-> 0, height |-> 0]
NoInfo == [ret |-> "none", eFrameType |-> "videoFrameTypeInvalid", layers |-> <<>>]
NoPic == [iPicWidth |-> 0, iPicHeight |-> 0]
NoParam == [iPicWidth |-> 0, iPicHeight |-> 0, fMaxFrameRate |-> 0,
            iTargetBitrate |-> 0, iMaxBitrate |-> 0, uiIntraPeriod |-> 0,
            iSpatialBitrate |-> 0, iMaxSpatialBitrate |-> 0,
            iMultipleThreadIdc |-> 0]

\* the memory behind out_buf, out_size and is_keyframe as the caller hands it
\* in: values no call stores (bitstream bytes are never 0, sizes are at most
\* BufLen, and a stale keyframe flag is set)
CallerOut == [buf |-> [i \in 1..BufLen |-> 0], size |-> BufLen + 7, kf |-> 1]

VARIABLES heap, engines, handles, destroyed, requested,
          pc, op, arg, seen, ret, ops, fault,
          out_buf, out_size, is_keyframe, info, pic, param,
          copies, unmatched

vars == <<heap, engines, handles, destroyed, requested, pc, op, arg, seen, ret,
          ops, fault, out_buf, out_size, is_keyframe, info, pic, param,
          copies, unmatched>>

\* the output variables of a call that is not an encode call
FreshOuts ==
    /\ out_buf' = CallerOut.buf
    /\ out_size' = CallerOut.size
    /\ is_keyframe' = CallerOut.kf
    /\ info' = NoInfo
    /\ pic' = NoPic
    /\ copies' = <<>>

\* the caller is between two calls: nothing is recorded of a call
NoCall ==
    /\ op' = "none"
    /\ arg' = NoArg
    /\ seen' = NoSeen
    /\ ret' = 0
    /\ ops' = <<>>
    /\ fault' = "none"
    /\ param' = NoParam
    /\ FreshOuts

Init ==
    /\ heap = [a \in Addr |-> NoCtx]
    /\ engines = [e \in EngId |-> "none"]
    /\ handles = {}
    /\ destroyed = {}
    /\ requested = {}
    /\ pc = "idle"
    /\ op = "none"
    /\ arg = NoArg
    /\ seen = NoSeen
    /\ ret = 0
    /\ ops = <<>>
    /\ fault = "none"
    /\ out_buf = CallerOut.buf
    /\ out_size = CallerOut.size
    /\ is_keyframe = CallerOut.kf
    /\ info = NoInfo
    /\ pic = NoPic
    /\ param = NoParam
    /\ copies = <<>>
    /\ unmatched = 0

\* ------------------------------------------------------------------ create
\* the arguments callers pass to h264_encoder_create: each of the five
\* validated parameters has rejected values and an accepted one (bitrate has
\* a second accepted one, the largest int); threads is negative, 0 or positive
CreateArgs == [width : {0, 4}, height : {-1, 3}, fps : {0, 2},
               bitrate : {-1, 0, 1, INT_MAX}, keyint : {-1, 5},
               threads : {-1, 0, 2}]

\* bitrate * 2 in int arithmetic (lines 65 and 91) leaves the range of int:
\* signed overflow, where the build either wraps or traps
Mul2Overflows(b) == b > INT_MAX \div 2 \/ b < INT_MIN \div 2
\* ... and the 32-bit two's complement result, 2b - 2^32 or 2b + 2^32 on overflow
Mul2(b) == IF b > INT_MAX \div 2 THEN ((b - INT_MAX) - 1) * 2
           ELSE IF b < INT_MIN \div 2 THEN ((b + INT_MAX) + 1) * 2
           ELSE b * 2

\* lines 99-104 with the caller's value passed through as it is
ThreadIdc_PassThrough(threads) == threads

\* lines 99-104
ThreadIdc(threads) == IF threads > 0 THEN threads ELSE 1

\* SEncParamExt as filled in by lines 60-104
DeriveParam(a) ==
    [iPicWidth          |-> a.width,
     iPicHeight         |-> a.height,
     fMaxFrameRate      |-> a.fps,
     iTargetBitrate     |-> a.bitrate,
     iMaxBitrate        |-> Mul2(a.bitrate),
     uiIntraPeriod      |-> a.keyint,
     iSpatialBitrate    |-> a.bitrate,
     iMaxSpatialBitrate |-> Mul2(a.bitrate),
     iMultipleThreadIdc |-> ThreadIdc(a.threads)]

\* lines 27-30 with the keyint comparison left out
CreateRejects_NoKeyint(a) ==
    a.width <= 0 \/ a.height <= 0 \/ a.fps <= 0 \/ a.bitrate <= 0

\* lines 27-30
CreateRejects(a) ==
    a.width <= 0 \/ a.height <= 0 \/ a.fps <= 0 \/ a.bitrate <= 0 \/ a.keyint <= 0

\* lines 38-44: the context after the parameters are stored
StoreParams(c, a) ==
    [c EXCEPT !.width = a.width, !.height = a.height, !.fps = a.fps,
              !.bitrate = a.bitrate, !.keyint = a.keyint, !.force_idr = 0]

\* the address calloc returns: the first slot that holds no live context
\* (none when the heap is exhausted)
FreeAddrs == {p \in Addr : heap[p].st # "live" /\ \A q \in 1..(p - 1) : heap[q].st = "live"}

\* the engine instance WelsCreateSVCEncoder hands out: the first not in use
FreeEngines == {e \in EngId : engines[e] = "none"}
NewEngine == CHOOSE e \in FreeEngines : \A f \in FreeEngines : e <= f

\* lines 49 and 111 with the free(ctx) left out
CreateFree_Leak(hp, p) == hp

\* lines 49 and 111: the heap after free(ctx) on a failure path of create
CreateFree(hp, p) == [hp EXCEPT ![p] = FreeCtx(hp[p])]

\* lines 109-110: the engines after a failed InitializeExt
InitFailRelease(eng, e) == [eng EXCEPT ![e] = "none"]

\* the operations create issues, in order, on each of its paths
OpsCreateFail == <<"calloc", "WelsCreateSVCEncoder", "free">>
OpsInitFail == <<"calloc", "WelsCreateSVCEncoder", "GetDefaultParams", "InitializeExt",
                 "Uninitialize", "WelsDestroySVCEncoder", "free">>
OpsCreated == <<"calloc", "WelsCreateSVCEncoder", "GetDefaultParams", "InitializeExt",
                "SetOption">>

\* what every path of create leaves in the call record
CreateDone(a, r, o, pm) ==
    /\ op' = "create"
    /\ arg' = a
    /\ seen' = NoSeen
    /\ ret' = r
    /\ ops' = o
    /\ param' = pm
    /\ fault' = "none"
    /\ FreshOuts
    /\ UNCHANGED unmatched

Create ==
    /\ pc = "idle"
    /\ \E a \in CreateArgs :
         IF CreateRejects(a)
         THEN \* line 29
              /\ CreateDone(a, NULL, <<>>, NoParam)
              /\ pc' = "returned"
              /\ UNCHANGED <<heap, engines, handles, destroyed, requested>>
         ELSE \/ \* calloc fails, line 35
                 /\ CreateDone(a, NULL, <<"calloc">>, NoParam)
                 /\ pc' = "returned"
                 /\ UNCHANGED <<heap, engines, handles, destroyed, requested>>
              \/ \E p \in FreeAddrs :
                   LET heap1 == [heap EXCEPT ![p] = StoreParams(ZeroCtx, a)]
                   IN  \/ \* WelsCreateSVCEncoder fails, lines 48-51
                          /\ heap' = CreateFree(heap1, p)
                          /\ CreateDone(a, NULL, OpsCreateFail, NoParam)
                          /\ pc' = "returned"
                          /\ UNCHANGED <<engines, handles, destroyed, requested>>
                       \/ /\ FreeEngines # {}
                          /\ LET e == NewEngine
                                 heap2 == [heap1 EXCEPT ![p].encoder = e]
                                 eng2 == [engines EXCEPT ![e] = "created"]
                                 pm == DeriveParam(a)
                             IN  \/ \* bitrate * 2 overflows and the build traps
                                    /\ Mul2Overflows(a.bitrate)
                                    /\ heap' = heap2
                                    /\ engines' = eng2
                                    /\ CreateDone(a, NULL,
                                          <<"calloc", "WelsCreateSVCEncoder",
                                            "GetDefaultParams">>, NoParam)
                                    /\ pc' = "crashed"
                                    /\ UNCHANGED <<handles, destroyed, requested>>
                                 \/ \* InitializeExt fails, lines 108-113
                                    /\ heap' = CreateFree(heap2, p)
                                    /\ engines' = InitFailRelease(eng2, e)
                                    /\ CreateDone(a, NULL, OpsInitFail, pm)
                                    /\ pc' = "returned"
                                    /\ UNCHANGED <<handles, destroyed, requested>>
                                 \/ \* success, lines 115-119
                                    /\ heap' = heap2
                                    /\ engines' = [eng2 EXCEPT ![e] = "initialized"]
                                    /\ CreateDone(a, p, OpsCreated, pm)
                                    /\ pc' = "returned"
                                    /\ handles' = handles \cup {p}
                                    /\ destroyed' = destroyed \ {p}
                                    /\ requested' = requested \ {p}

\* ------------------------------------------------------- reading a context
\* handles a caller can pass: those it owns and those it has destroyed
Known == handles \cup destroyed

\* what a read of freed context memory can return
IndeterminateCtx == {[encoder |-> e, force_idr |-> f, width |-> 0, height |-> 0] :
                       e \in {NULL} \cup EngId, f \in {0, 1}}

\* the fields a call reads through the handle h: those of the live context,
\* or indeterminate values when the context was freed (dangling handle)
CtxView(h) ==
    IF heap[h].st = "live"
    THEN {[encoder |-> heap[h].encoder, force_idr |-> heap[h].force_idr,
           width |-> heap[h].width, height |-> heap[h].height]}
    ELSE IndeterminateCtx

\* the call reads (or writes) context memory that was freed
Dangling(h) == heap[h].st # "live"

\* the call invokes an engine that is not a live, initialized instance
EngineGone(e) == engines[e] # "initialized"

\* ------------------------------------------------- the engine's EncodeFrame
\* NAL length lists of one layer
NalSeqs == {<<>>, <<1>>, <<1, 2>>}

RECURSIVE SumNals(_)
\* lines 179-181 and 200-202: the sum of a layer's NAL lengths
SumNals(nals) == IF nals = <<>> THEN 0 ELSE Head(nals) + SumNals(Tail(nals))

\* the bitstream bytes of the layer at index k (from 1): sLayerInfo[k-1].pBsBuf
\* holds the layer's NAL units back to back; each byte names layer and position
BsBuf(k, nals) == [j \in 1..SumNals(nals) |-> 10 * k + j]

\* the layers of one frame, given the NAL length list of each
LayersOf(shape) == [k \in 1..Len(shape) |-> [nals |-> shape[k], bs |-> BsBuf(k, shape[k])]]

\* the layer lists of at most MaxLayers layers
Shapes == UNION {[1..n -> NalSeqs] : n \in 0..MaxLayers}

\* SFrameBSInfo as the engine can fill it in: any frame type with any layers
EngineFrames ==
    {[ret |-> "cmResultSuccess", eFrameType |-> t, layers |-> LayersOf(sh)] :
        t \in FrameTypes, sh \in Shapes}

\* what EncodeFrame can return: success with a frame, or a failure that
\* leaves the zeroed SFrameBSInfo (line 163) as it was
EngineOutcomes == EngineFrames \cup {[NoInfo EXCEPT !.ret = "cmResultFail"]}

\* ------------------------------------------------------------------ encode
Pointers == {"y", "u", "v", "out_buf", "out_size", "is_keyframe"}

\* declared capacities (out_buf_size), negative and zero included
Caps == -1..BufLen

\* the pointer arguments that are absent in a call: none, one, or all
AbsentSets == {{}} \cup {{q} : q \in Pointers} \cup {Pointers}

\* the calls made: every handle the caller knows or NULL, with every set of
\* absent pointers and every declared capacity
EncodeArgs == [h : Known \cup {NULL}, absent : AbsentSets, cap : Caps]

\* line 128 with the test of is_keyframe left out
MissingPointer_NoKeyframePtr(a) ==
    \/ a.h = NULL
    \/ "y" \in a.absent \/ "u" \in a.absent \/ "v" \in a.absent
    \/ "out_buf" \in a.absent \/ "out_size" \in a.absent

\* line 128
MissingPointer(a) ==
    \/ a.h = NULL
    \/ "y" \in a.absent \/ "u" \in a.absent \/ "v" \in a.absent
    \/ "out_buf" \in a.absent \/ "out_size" \in a.absent
    \/ "is_keyframe" \in a.absent

\* line 133
EngineAbsent(v) == v.encoder = NULL

\* lines 137-139 left out
InitOutputs_Skip(o) == o

\* lines 137-139
InitOutputs(o) == [o EXCEPT !.size = 0, !.kf = 0]

\* lines 145-146 with width and height exchanged
SourcePicture_Swapped(v) == [iPicWidth |-> v.height, iPicHeight |-> v.width]

\* lines 145-146
SourcePicture(v) == [iPicWidth |-> v.width, iPicHeight |-> v.height]

\* lines 155-159: the engine operation issued for a pending request
ForceOps(v) == IF v.force_idr # 0 THEN <<"ForceIntraFrame">> ELSE <<>>

\* lines 156-159 with the assignment of line 158 left out
ClearForce_Keep(c) == c

\* lines 156-159 with the flag assigned 1 at line 158
ClearForce_Set(c) == IF c.force_idr # 0 THEN [c EXCEPT !.force_idr = 1] ELSE c

\* lines 156-159: the context after the request was consumed
ClearForce(c) == IF c.force_idr # 0 THEN [c EXCEPT !.force_idr = 0] ELSE c

\* lines 155-165 with the frame submitted to the engine a second time
EngineOps_Twice(v) == ForceOps(v) \o <<"EncodeFrame", "EncodeFrame">>

\* lines 155-165: the engine operations of a call that passed validation
EngineOps(v) == ForceOps(v) \o <<"EncodeFrame">>

\* the number of EncodeFrame invocations in a list of operations
Invocations(o) == Cardinality({i \in 1..Len(o) : o[i] = "EncodeFrame"})

\* lines 176-182 with the loop stopped after the first layer
TotalSize_FirstLayer(layers) ==
    IF layers = <<>> THEN 0 ELSE SumNals(Head(layers).nals)

RECURSIVE TotalSize(_)
\* lines 176-182
TotalSize(layers) ==
    IF layers = <<>> THEN 0
    ELSE SumNals(Head(layers).nals) + TotalSize(Tail(layers))

\* line 171 with the skipped frame treated like any other
IsSkipped_Never(t) == FALSE

\* line 171
IsSkipped(t) == t = "videoFrameTypeSkip"

\* line 184 with the upfront check left to the copy loop
TooSmall_Never(total_size, out_buf_size) == FALSE

\* line 184
TooSmall(total_size, out_buf_size) == total_size > out_buf_size

\* line 189 with only the IDR type taken as a keyframe
IsKeyframeType_IdrOnly(t) == t = "videoFrameTypeIDR"

\* line 189
IsKeyframeType(t) == t = "videoFrameTypeIDR" \/ t = "videoFrameTypeI"

\* line 208 with every layer copied to the start of the buffer
Memcpy_NoOffset(buf, offset, src, n) ==
    [i \in 1..Len(buf) |-> IF i <= n THEN src[i] ELSE buf[i]]

\* line 208: memcpy(out_buf + offset, src, n)
Memcpy(buf, offset, src, n) ==
    [i \in 1..Len(buf) |-> IF i > offset /\ i <= offset + n THEN src[i - offset] ELSE buf[i]]

RECURSIVE CopyLayers(_, _, _, _, _, _)
\* lines 194-210: the copy loop from layer k on; done lists the memcpy calls
\* made so far, each with its offset into out_buf and its length
CopyLayers(layers, k, offset, buf, cap, done) ==
    IF k > Len(layers)
    THEN [code |-> H264_SUCCESS, buf |-> buf, offset |-> offset, copies |-> done]
    ELSE LET layer_size == SumNals(layers[k].nals)
         IN  IF offset + layer_size > cap
             THEN [code |-> H264_ERROR_OUTPUT_BUFFER_TOO_SMALL, buf |-> buf,
                   offset |-> offset, copies |-> done]
             ELSE CopyLayers(layers, k + 1, offset + layer_size,
                             Memcpy(buf, offset, layers[k].bs, layer_size), cap,
                             Append(done, [offset |-> offset, n |-> layer_size]))

\* lines 166-213: what encode returns and leaves behind its output pointers,
\* given the engine's outcome r, the declared capacity and the outputs o
EncodeFinish(r, cap, o) ==
    IF r.ret # "cmResultSuccess"
    THEN [code |-> H264_ERROR_ENCODE_FAILED, out |-> o, copies |-> <<>>]
    ELSE IF IsSkipped(r.eFrameType)
    THEN [code |-> H264_SUCCESS, out |-> o, copies |-> <<>>]
    ELSE IF TooSmall(TotalSize(r.layers), cap)
    THEN [code |-> H264_ERROR_OUTPUT_BUFFER_TOO_SMALL, out |-> o, copies |-> <<>>]
    ELSE LET o1 == IF IsKeyframeType(r.eFrameType) THEN [o EXCEPT !.kf = 1] ELSE o
             c == CopyLayers(r.layers, 1, 0, o1.buf, cap, <<>>)
         IN  IF c.code # H264_SUCCESS
             THEN [code |-> c.code, out |-> [o1 EXCEPT !.buf = c.buf],
                   copies |-> c.copies]
             ELSE [code |-> H264_SUCCESS,
                   out |-> [o1 EXCEPT !.buf = c.buf, !.size = c.offset],
                   copies |-> c.copies]

\* what every path of encode leaves in the call record
EncodeDone(a, v, r, o, out, fr, pc1, cp) ==
    /\ op' = "encode"
    /\ arg' = a
    /\ seen' = v
    /\ ret' = r
    /\ ops' = o
    /\ out_buf' = out.buf
    /\ out_size' = out.size
    /\ is_keyframe' = out.kf
    /\ info' = fr
    /\ pic' = pc1
    /\ copies' = cp
    /\ param' = NoParam
    /\ UNCHANGED <<engines, handles, destroyed>>

Encode ==
    /\ pc = "idle"
    /\ \E a \in EncodeArgs :
         IF MissingPointer(a)
         THEN \* line 129
              /\ EncodeDone(a, NoSeen, H264_ERROR_INVALID_PARAM, <<>>, CallerOut,
                            NoInfo, NoPic, <<>>)
              /\ fault' = "none" /\ pc' = "returned"
              /\ UNCHANGED <<heap, requested, unmatched>>
         ELSE \E v \in CtxView(a.h) :
              IF EngineAbsent(v)
              THEN \* line 134
                   /\ EncodeDone(a, v, H264_ERROR_NULL_ENCODER, <<>>, CallerOut,
                                 NoInfo, NoPic, <<>>)
                   /\ fault' = IF Dangling(a.h) THEN "use_after_free" ELSE "none"
                   /\ pc' = "returned"
                   /\ UNCHANGED <<heap, requested, unmatched>>
              ELSE LET gone == Dangling(a.h) \/ EngineGone(v.encoder)
                       o == InitOutputs(CallerOut)
                       pc1 == SourcePicture(v)
                   IN  \/ \* the engine call goes through a dangling pointer and faults
                          /\ gone
                          /\ EncodeDone(a, v, 0, <<>>, o, NoInfo, pc1, <<>>)
                          /\ fault' = "use_after_free" /\ pc' = "crashed"
                          /\ UNCHANGED <<heap, requested, unmatched>>
                       \/ \E r \in EngineOutcomes :
                            LET f == EncodeFinish(r, a.cap, o)
                            IN  /\ EncodeDone(a, v, f.code, EngineOps(v), f.out, r, pc1,
                                              f.copies)
                                /\ unmatched' = unmatched + 1
                                                  - Invocations(EngineOps(v))
                                /\ fault' = IF gone THEN "use_after_free" ELSE "none"
                                /\ pc' = "returned"
                                /\ heap' = IF Dangling(a.h) THEN heap
                                           ELSE [heap EXCEPT ![a.h] = ClearForce(heap[a.h])]
                                /\ requested' = requested \ {a.h}

\* --------------------------------------------------------------- force_idr
\* line 217
ForceRejects(h) == h = NULL

\* line 226 left out
SetForce_Skip(c) == c

\* line 226 with the requests counted instead of flagged
SetForce_Count(c) == [c EXCEPT !.force_idr = c.force_idr + 1]

\* line 226: the context after the request is recorded
SetForce(c) == [c EXCEPT !.force_idr = 1]

\* what every path of force_idr leaves in the call record
ForceDone(h, v, r) ==
    /\ op' = "force_idr"
    /\ arg' = [h |-> h]
    /\ seen' = v
    /\ ret' = r
    /\ ops' = <<>>
    /\ param' = NoParam
    /\ pc' = "returned"
    /\ FreshOuts
    /\ UNCHANGED <<engines, handles, destroyed, unmatched>>

ForceIdr ==
    /\ pc = "idle"
    /\ \E h \in Known \cup {NULL} :
         IF ForceRejects(h)
         THEN \* line 218
              /\ ForceDone(h, NoSeen, H264_ERROR_INVALID_PARAM)
              /\ fault' = "none"
              /\ UNCHANGED <<heap, requested>>
         ELSE \E v \in CtxView(h) :
              /\ fault' = IF Dangling(h) THEN "use_after_free" ELSE "none"
              /\ IF EngineAbsent(v)
                 THEN \* line 223
                      /\ ForceDone(h, v, H264_ERROR_NULL_ENCODER)
                      /\ UNCHANGED <<heap, requested>>
                 ELSE \* lines 226-227
                      /\ ForceDone(h, v, H264_SUCCESS)
                      /\ heap' = IF Dangling(h) THEN heap
                                 ELSE [heap EXCEPT ![h] = SetForce(heap[h])]
                      /\ requested' = requested \cup {h}

\* ----------------------------------------------------------------- destroy
\* lines 237-240 with the engine released before it is uninitialized
ReleaseOps_Swapped(v) == IF v.encoder # NULL
                         THEN <<"WelsDestroySVCEncoder", "Uninitialize">> ELSE <<>>

\* lines 237-240: the engine operations destroy issues
ReleaseOps(v) == IF v.encoder # NULL
                 THEN <<"Uninitialize", "WelsDestroySVCEncoder">> ELSE <<>>

\* lines 238-239 with every engine of the process released
ReleaseEngine_All(v) == [e \in EngId |-> "none"]

\* lines 238-239: the engines after the one the context names is released
ReleaseEngine(v) == IF v.encoder # NULL
                    THEN [engines EXCEPT ![v.encoder] = "none"] ELSE engines

\* what every path of destroy leaves in the call record
DestroyDone(h, v, o) ==
    /\ op' = "destroy"
    /\ arg' = [h |-> h]
    /\ seen' = v
    /\ ret' = 0
    /\ ops' = o
    /\ param' = NoParam
    /\ FreshOuts
    /\ UNCHANGED unmatched

Destroy ==
    /\ pc = "idle"
    /\ \E h \in Known \cup {NULL} :
         IF h = NULL
         THEN \* line 232
              /\ DestroyDone(h, NoSeen, <<>>)
              /\ fault' = "none" /\ pc' = "returned"
              /\ UNCHANGED <<heap, engines, handles, destroyed, requested>>
         ELSE \E v \in CtxView(h) :
              /\ DestroyDone(h, v, ReleaseOps(v) \o <<"free">>)
              /\ engines' = ReleaseEngine(v)
              /\ heap' = [heap EXCEPT ![h] = FreeCtx(heap[h])]
              /\ handles' = handles \ {h}
              /\ destroyed' = destroyed \cup {h}
              /\ requested' = requested \ {h}
              /\ IF Dangling(h)
                 THEN fault' = "double_free" /\ pc' \in {"returned", "crashed"}
                 ELSE /\ fault' = IF v.encoder # NULL /\ EngineGone(v.encoder)
                                  THEN "use_after_free" ELSE "none"
                      /\ pc' = "returned"

\* ------------------------------------------------------------------ caller
\* the caller has looked at what the call returned and is ready for its next
\* call, with fresh output variables; after undefined behaviour (fault) the
\* program is not followed further
Return ==
    /\ pc = "returned"
    /\ fault = "none"
    /\ pc' = "idle"
    /\ NoCall
    /\ UNCHANGED <<heap, engines, handles, destroyed, requested, unmatched>>

Next == Create \/ Encode \/ ForceIdr \/ Destroy \/ Return

Spec == Init /\ [][Next]_vars

\* ================================================================== claims
\* the last call was op and it returned
Returned(o) == pc = "returned" /\ op = o

\* the last call was an encode call that got past lines 128-135
Validated ==
    op = "encode" /\ pc # "idle" /\ arg.h # NULL /\ arg.absent = {} /\ seen.encoder # NULL

\* what the output pointers of the last call refer to is as the caller left it
OutputsUntouched ==
    out_buf = CallerOut.buf /\ out_size = CallerOut.size /\ is_keyframe = CallerOut.kf

RECURSIVE Concat(_)
\* the bitstream bytes of a list of layers, layer 0 first
Concat(layers) == IF layers = <<>> THEN <<>> ELSE Head(layers).bs \o Concat(Tail(layers))

\* the number of bytes the engine produced for a frame
Produced(layers) == Len(Concat(layers))

\* how many times the operation x occurs in the list of operations s
Count(s, x) == Cardinality({i \in 1..Len(s) : s[i] = x})

\* ---------------------------------------------------------------------- C1
\* C1: after destroy(handle), every further encode (with all pointers present)
\* or requestKeyframe on that handle returns H264_ERROR_NULL_ENCODER and
\* touches neither freed handle memory nor a released engine.
C1_DestroyedHandleIsRefused ==
    (pc # "idle" /\ op \in {"encode", "force_idr"} /\ arg.h \in destroyed
       /\ (op = "encode" => arg.absent = {}))
    => (pc = "returned" /\ ret = H264_ERROR_NULL_ENCODER /\ fault = "none")

\* ---------------------------------------------------------------------- C2
\* C2: create with any of width, height, fps, bitrate, keyint <= 0 returns
\* NULL without calling calloc or WelsCreateSVCEncoder and leaves no context
\* or engine behind; with all five positive it is never rejected at
\* validation, whatever threads is.
C2_InvalidCreateAllocatesNothing ==
    (op = "create" /\ pc # "idle") =>
        LET bad == arg.width <= 0 \/ arg.height <= 0 \/ arg.fps <= 0
                   \/ arg.bitrate <= 0 \/ arg.keyint <= 0
        IN  /\ bad => /\ pc = "returned" /\ ret = NULL /\ ops = <<>>
                      /\ {p \in Addr : heap[p].st = "live"} = handles
                      /\ Cardinality({e \in EngId : engines[e] # "none"})
                           = Cardinality(handles)
            /\ ~bad => ops # <<>>

C2_Witness ==
    /\ Returned("create") /\ ret = NULL /\ ops = <<>>
    /\ arg.keyint <= 0 /\ arg.width > 0 /\ arg.height > 0 /\ arg.fps > 0
    /\ arg.bitrate > 0 /\ arg.threads < 0
    /\ handles # {}

\* ---------------------------------------------------------------------- C3
\* C3: whenever create has returned (and between calls), the live contexts are
\* exactly the handles the caller holds and the live engines are exactly the
\* engines of those handles, each initialized and owned by one handle; a
\* create that freed its context or released its engine returned NULL, and a
\* non-NULL result is a handle with an initialized engine.
C3_CreateLeavesNoOrphans ==
    (pc \in {"idle", "returned"} /\ fault = "none") =>
        /\ {p \in Addr : heap[p].st = "live"} = handles
        /\ {e \in EngId : engines[e] # "none"} = {heap[p].encoder : p \in handles}
        /\ \A p \in handles : /\ heap[p].encoder # NULL
                              /\ engines[heap[p].encoder] = "initialized"
        /\ \A p, q \in handles : heap[p].encoder = heap[q].encoder => p = q
        /\ Returned("create") =>
             /\ ret # NULL => ret \in handles
             /\ (\E i \in 1..Len(ops) : ops[i] \in {"free", "WelsDestroySVCEncoder"})
                  => ret = NULL
             /\ (\E i \in 1..Len(ops) : ops[i] = "WelsDestroySVCEncoder")
                  => \E j \in 1..Len(ops) : ops[j] = "Uninitialize"

C3_Witness ==
    /\ Returned("create") /\ ret = NULL
    /\ \E i \in 1..Len(ops) : ops[i] = "WelsDestroySVCEncoder"
    /\ handles # {}

\* ---------------------------------------------------------------------- C4
\* C4: an encode call on an owned handle that passes validation issues
\* ForceIntraFrame exactly once, before EncodeFrame, when requestKeyframe
\* succeeded on the handle since its last validated encode, and does not issue
\* it otherwise; after the call the flag is clear and no request is pending.
\* A handle that create has just returned has the flag clear.
C4_ForceFlagIsOneShot ==
    [][ /\ (pc = "idle" /\ pc' = "returned" /\ op' = "encode"
              /\ arg'.h \in handles /\ arg'.absent = {})
           => /\ ops' = IF arg'.h \in requested
                        THEN <<"ForceIntraFrame", "EncodeFrame">>
                        ELSE <<"EncodeFrame">>
              /\ heap'[arg'.h].force_idr = 0
              /\ arg'.h \notin requested'
        /\ (pc = "idle" /\ pc' = "returned" /\ op' = "create" /\ ret' # NULL)
           => heap'[ret'].force_idr = 0 /\ ret' \notin requested'
      ]_vars

C4_Witness ==
    /\ Returned("encode") /\ arg.h \in handles
    /\ ops = <<"ForceIntraFrame", "EncodeFrame">>
    /\ heap[arg.h].force_idr = 0

\* ---------------------------------------------------------------------- C5
\* C5: whenever encode returns H264_ERROR_OUTPUT_BUFFER_TOO_SMALL, out_size is
\* 0, is_keyframe is 0 and the output buffer is as the caller left it; and it
\* returns that code for every frame the engine encoded and did not skip whose
\* bytes exceed the declared capacity.
C5_TooSmallWritesNothing ==
    Returned("encode") =>
        /\ ret = H264_ERROR_OUTPUT_BUFFER_TOO_SMALL
             => out_size = 0 /\ is_keyframe = 0 /\ out_buf = CallerOut.buf
        /\ (info.ret = "cmResultSuccess" /\ info.eFrameType # "videoFrameTypeSkip"
              /\ Produced(info.layers) > arg.cap)
             => ret = H264_ERROR_OUTPUT_BUFFER_TOO_SMALL

C5_Witness ==
    /\ Returned("encode") /\ ret = H264_ERROR_OUTPUT_BUFFER_TOO_SMALL
    /\ Len(info.layers) = 2 /\ arg.cap > 0
    /\ Len(info.layers[1].bs) <= arg.cap
    /\ info.eFrameType = "videoFrameTypeIDR"

\* ---------------------------------------------------------------------- C6
\* C6: for every frame the engine encoded and did not skip whose bytes fit the
\* declared capacity, encode returns success, out_size is the number of bytes
\* of all layers, the buffer starts with the layers' bytes in production
\* order with nothing between them, and the bytes after them are untouched.
C6_FrameIsConcatenationOfLayers ==
    (Returned("encode") /\ info.ret = "cmResultSuccess"
       /\ info.eFrameType # "videoFrameTypeSkip" /\ Produced(info.layers) <= arg.cap)
    => /\ ret = H264_SUCCESS
       /\ out_size = Produced(info.layers)
       /\ \A i \in 1..BufLen :
            out_buf[i] = IF i <= Produced(info.layers)
                         THEN Concat(info.layers)[i] ELSE CallerOut.buf[i]

C6_Witness ==
    /\ Returned("encode") /\ ret = H264_SUCCESS /\ fault = "none"
    /\ Len(info.layers) = 2
    /\ Len(info.layers[1].bs) > 0 /\ Len(info.layers[2].bs) > 0
    /\ out_size = 2

\* ---------------------------------------------------------------------- C7
\* C7: when the engine's encode step succeeds and reports a skipped frame,
\* encode returns success with out_size 0 and is_keyframe 0 and an untouched
\* buffer, whatever the capacity and whatever layers the engine reported.
C7_SkippedFrameIsEmptySuccess ==
    (Returned("encode") /\ info.ret = "cmResultSuccess"
       /\ info.eFrameType = "videoFrameTypeSkip")
    => /\ ret = H264_SUCCESS
       /\ out_size = 0 /\ is_keyframe = 0 /\ out_buf = CallerOut.buf

C7_Witness ==
    /\ Returned("encode") /\ info.ret = "cmResultSuccess"
    /\ info.eFrameType = "videoFrameTypeSkip"
    /\ arg.cap = 0 /\ Produced(info.layers) > 0
    /\ ret = H264_SUCCESS

\* ---------------------------------------------------------------------- C8
\* C8: encode returns H264_ERROR_INVALID_PARAM exactly when the handle or one
\* of the six pointers is absent (whatever the engine reference is), and
\* otherwise H264_ERROR_NULL_ENCODER exactly when the engine reference it reads
\* is absent; in both cases it issues no engine operation, writes nothing
\* behind the output pointers and leaves every context (the force flag and a
\* pending request included) as it was.
C8_EncodeValidatesBeforeEngine ==
    [][ (pc = "idle" /\ pc' # "idle" /\ op' = "encode") =>
          LET missing == arg'.h = NULL \/ arg'.absent # {}
              rejected == /\ pc' = "returned" /\ ops' = <<>>
                          /\ OutputsUntouched'
                          /\ heap' = heap /\ engines' = engines
                          /\ requested' = requested
          IN  /\ missing => ret' = H264_ERROR_INVALID_PARAM /\ rejected
                            /\ fault' = "none"
              /\ (~missing /\ seen'.encoder = NULL)
                   => ret' = H264_ERROR_NULL_ENCODER /\ rejected
              /\ (pc' = "returned" /\ ret' = H264_ERROR_INVALID_PARAM) => missing
              /\ (pc' = "returned" /\ ret' = H264_ERROR_NULL_ENCODER)
                   => ~missing /\ seen'.encoder = NULL
      ]_vars

C8_Witness ==
    /\ Returned("encode") /\ ret = H264_ERROR_INVALID_PARAM
    /\ arg.h \in handles /\ arg.absent = {"is_keyframe"}
    /\ heap[arg.h].force_idr = 1 /\ arg.h \in requested
    /\ ops = <<>> /\ OutputsUntouched

\* ---------------------------------------------------------------------- C9
\* C9 as stated: requestKeyframe returns H264_ERROR_NULL_ENCODER both for an
\* absent handle and for a handle whose engine is absent, without setting the
\* flag; on a handle with an engine it sets the flag and returns success
\* without an engine operation.
C9_AbsentHandleIsNullEncoder ==
    [][ (pc = "idle" /\ pc' = "returned" /\ op' = "force_idr") =>
          /\ (arg'.h = NULL \/ seen'.encoder = NULL)
               => /\ ret' = H264_ERROR_NULL_ENCODER
                  /\ heap' = heap /\ requested' = requested /\ ops' = <<>>
          /\ (arg'.h # NULL /\ seen'.encoder # NULL)
               => /\ ret' = H264_SUCCESS /\ ops' = <<>> /\ engines' = engines
                  /\ arg'.h \in handles => heap'[arg'.h].force_idr = 1
      ]_vars

\* C9 (amended): requestKeyframe returns H264_ERROR_INVALID_PARAM for an absent
\* handle and H264_ERROR_NULL_ENCODER for a present handle whose engine
\* reference is absent, in neither case setting a flag; on a handle with an
\* engine it sets that handle's flag (and nothing else) and returns success
\* without an engine operation.
C9_ForceIdrResultCodes ==
    [][ (pc = "idle" /\ pc' = "returned" /\ op' = "force_idr") =>
          /\ arg'.h = NULL
               => /\ ret' = H264_ERROR_INVALID_PARAM
                  /\ heap' = heap /\ requested' = requested /\ ops' = <<>>
          /\ (arg'.h # NULL /\ seen'.encoder = NULL)
               => /\ ret' = H264_ERROR_NULL_ENCODER
                  /\ heap' = heap /\ requested' = requested /\ ops' = <<>>
          /\ (arg'.h # NULL /\ seen'.encoder # NULL)
               => /\ ret' = H264_SUCCESS /\ ops' = <<>> /\ engines' = engines
                  /\ arg'.h \in handles
                       => /\ heap'[arg'.h].force_idr = 1
                          /\ heap' = [heap EXCEPT ![arg'.h].force_idr = 1]
      ]_vars

C9_Witness ==
    /\ Returned("force_idr") /\ arg.h = NULL /\ ret = H264_ERROR_INVALID_PARAM
    /\ handles # {} /\ \A p \in handles : heap[p].force_idr = 0

\* --------------------------------------------------------------------- C10
\* C10: once encode is past its validation, out_size and is_keyframe are 0 on
\* every path that does not return success, a path that dies in the engine
\* included, whatever the caller's variables held; an engine encode failure
\* is returned as H264_ERROR_ENCODE_FAILED with both outputs 0 and the buffer
\* as the caller left it.
C10_ErrorsLeaveZeroOutputs ==
    Validated =>
        /\ (pc = "crashed" \/ ret # H264_SUCCESS) => out_size = 0 /\ is_keyframe = 0
        /\ info.ret = "cmResultFail"
             => /\ ret = H264_ERROR_ENCODE_FAILED
                /\ out_size = 0 /\ is_keyframe = 0 /\ out_buf = CallerOut.buf

C10_Witness ==
    /\ Returned("encode") /\ arg.h \in handles
    /\ info.ret = "cmResultFail" /\ ret = H264_ERROR_ENCODE_FAILED
    /\ out_size = 0 /\ is_keyframe = 0
    /\ CallerOut.size # 0 /\ CallerOut.kf # 0

\* --------------------------------------------------------------------- C11
\* C11: requestKeyframe on an owned handle that already has a request pending
\* returns success and changes nothing: the context, the engines and the set
\* of pending requests are as after the first request, so any number of
\* requests in a row amounts to one.  The flag is 0 or 1 and is 1 exactly when
\* a request is pending; the next validated encode on the handle issues
\* ForceIntraFrame once and leaves no request behind for the encode after it.
C11_RequestKeyframeIsIdempotent ==
    [][ /\ \A p \in handles : /\ heap[p].force_idr \in {0, 1}
                              /\ heap[p].force_idr = 1 <=> p \in requested
        /\ (pc = "idle" /\ pc' = "returned" /\ op' = "force_idr"
              /\ arg'.h \in handles /\ arg'.h \in requested)
           => /\ ret' = H264_SUCCESS
              /\ heap' = heap /\ engines' = engines /\ requested' = requested
        /\ (pc = "idle" /\ pc' = "returned" /\ op' = "encode"
              /\ arg'.h \in handles /\ arg'.absent = {} /\ arg'.h \in requested)
           => /\ Count(ops', "ForceIntraFrame") = 1
              /\ heap'[arg'.h].force_idr = 0
              /\ arg'.h \notin requested'
      ]_vars

C11_Witness ==
    /\ Returned("force_idr") /\ ret = H264_SUCCESS /\ arg.h \in handles
    /\ seen.force_idr = 1 /\ heap[arg.h].force_idr = 1
    /\ \E q \in handles : q # arg.h /\ heap[q].force_idr = 0

\* --------------------------------------------------------------------- C12
\* C12: on every encode that returns success for a frame the engine did not
\* skip, is_keyframe is 1 when the engine reported the type IDR or I and 0 for
\* every other type, whether or not the call issued ForceIntraFrame.
C12_KeyframeIffIdrOrI ==
    (Returned("encode") /\ ret = H264_SUCCESS
       /\ info.eFrameType # "videoFrameTypeSkip")
    => is_keyframe = IF info.eFrameType \in {"videoFrameTypeIDR", "videoFrameTypeI"}
                     THEN 1 ELSE 0

C12_Witness ==
    /\ Returned("encode") /\ ret = H264_SUCCESS /\ arg.h \in handles
    /\ ops = <<"ForceIntraFrame", "EncodeFrame">>
    /\ info.eFrameType = "videoFrameTypeP" /\ is_keyframe = 0
    /\ out_size > 0

\* --------------------------------------------------------------------- C13
\* C13: every create that passes validation and fills in the engine parameters
\* goes on to hand them to the engine with iMaxBitrate and iMaxSpatialBitrate
\* equal to exactly twice the bitrate argument, hence not below it, for every
\* accepted bitrate up to INT_MAX.
C13_MaxBitrateIsTwiceTarget ==
    (op = "create" /\ pc # "idle" /\ Count(ops, "GetDefaultParams") = 1)
    => /\ pc = "returned"
       /\ param.iTargetBitrate = arg.bitrate
       /\ param.iMaxBitrate >= arg.bitrate
       /\ param.iMaxBitrate % 2 = 0 /\ param.iMaxBitrate \div 2 = arg.bitrate
       /\ param.iMaxSpatialBitrate >= arg.bitrate
       /\ param.iMaxSpatialBitrate % 2 = 0
       /\ param.iMaxSpatialBitrate \div 2 = arg.bitrate

\* --------------------------------------------------------------------- C14
\* C14: the thread hint create hands to the engine is the threads argument
\* when that is positive and 1 otherwise, so it is never below 1; and a create
\* whose five validated parameters are positive is not rejected at validation
\* whatever threads is: it returns NULL only after calloc or the engine failed.
C14_ThreadHintIsAtLeastOne ==
    (op = "create" /\ pc = "returned") =>
        /\ Count(ops, "InitializeExt") = 1
             => /\ param.iMultipleThreadIdc
                     = IF arg.threads > 0 THEN arg.threads ELSE 1
                /\ param.iMultipleThreadIdc >= 1
        /\ (arg.width > 0 /\ arg.height > 0 /\ arg.fps > 0 /\ arg.bitrate > 0
              /\ arg.keyint > 0)
             => /\ ops # <<>>
                /\ ret = NULL => \/ ops = <<"calloc">>
                                 \/ Count(ops, "free") = 1

C14_Witness ==
    /\ Returned("create") /\ ret # NULL /\ ret \in handles
    /\ arg.threads < 0 /\ param.iMultipleThreadIdc = 1

\* --------------------------------------------------------------------- C15
\* C15: destroy on an owned handle issues Uninitialize, WelsDestroySVCEncoder
\* and free, in that order and once each, on that handle's engine and context
\* and on nothing else; destroy(NULL) issues nothing and changes nothing.
\* encode and requestKeyframe on an owned handle issue no create, initialize,
\* uninitialize, release or free operation and leave the engines and the
\* handle's engine reference as they were; an engine of an owned handle stops
\* being initialized only in a destroy call.
C15_DestroyIsTheOnlyRelease ==
    [][ (pc = "idle" /\ pc' # "idle") =>
          /\ (op' = "destroy" /\ arg'.h \in handles)
               => /\ pc' = "returned" /\ fault' = "none"
                  /\ ops' = <<"Uninitialize", "WelsDestroySVCEncoder", "free">>
                  /\ engines' = [engines EXCEPT ![heap[arg'.h].encoder] = "none"]
                  /\ heap'[arg'.h].st = "free"
                  /\ \A q \in Addr \ {arg'.h} : heap'[q] = heap[q]
                  /\ handles' = handles \ {arg'.h}
          /\ (op' = "destroy" /\ arg'.h = NULL)
               => /\ pc' = "returned" /\ ops' = <<>>
                  /\ heap' = heap /\ engines' = engines /\ handles' = handles
          /\ (op' \in {"encode", "force_idr"} /\ arg'.h \in handles)
               => /\ engines' = engines /\ handles' = handles
                  /\ heap'[arg'.h].st = "live"
                  /\ heap'[arg'.h].encoder = heap[arg'.h].encoder
                  /\ \A i \in 1..Len(ops') :
                       ops'[i] \in {"ForceIntraFrame", "EncodeFrame"}
          /\ \A p \in handles :
               engines'[heap[p].encoder] # "initialized" => op' = "destroy"
      ]_vars

C15_Witness ==
    /\ Returned("destroy") /\ fault = "none" /\ arg.h \in destroyed
    /\ ops = <<"Uninitialize", "WelsDestroySVCEncoder", "free">>
    /\ engines[seen.encoder] = "none"
    /\ \E q \in handles : engines[heap[q].encoder] = "initialized"

C17_StoredParametersAreImmutable ==
    [][ (pc = "idle" /\ pc' # "idle") =>
          /\ (op' = "create" /\ pc' = "returned" /\ ret' # NULL)
               => /\ heap'[ret'].width = arg'.width /\ arg'.width > 0
                  /\ heap'[ret'].height = arg'.height /\ arg'.height > 0
                  /\ heap'[ret'].fps = arg'.fps /\ arg'.fps > 0
                  /\ heap'[ret'].bitrate = arg'.bitrate /\ arg'.bitrate > 0
                  /\ heap'[ret'].keyint = arg'.keyint /\ arg'.keyint > 0
                  /\ heap'[ret'].encoder # NULL
          /\ (op' \in {"encode", "force_idr"} /\ arg'.h \in handles)
               => /\ heap'[arg'.h]
                       = [heap[arg'.h] EXCEPT !.force_idr = heap'[arg'.h].force_idr]
                  /\ heap'[arg'.h].force_idr \in {0, 1}
          /\ (op' = "encode" /\ arg'.h \in handles /\ arg'.absent = {})
               => /\ pic'.iPicWidth = heap[arg'.h].width
                  /\ pic'.iPicHeight = heap[arg'.h].height
                  /\ pic'.iPicWidth > 0 /\ pic'.iPicHeight > 0
          /\ \A p \in handles :
               /\ heap[p].width > 0 /\ heap[p].height > 0 /\ heap[p].fps > 0
               /\ heap[p].bitrate > 0 /\ heap[p].keyint > 0
      ]_vars

C17_Witness ==
    /\ Returned("encode") /\ arg.h \in handles /\ ret = H264_SUCCESS
    /\ ops = <<"ForceIntraFrame", "EncodeFrame">>
    /\ pic.iPicWidth = heap[arg.h].width /\ pic.iPicHeight = heap[arg.h].height
    /\ pic.iPicWidth # pic.iPicHeight
    /\ heap[arg.h].bitrate = 1 /\ heap[arg.h].keyint = 5 /\ heap[arg.h].fps = 2

\* --------------------------------------------------------------------- C18
\* C18: an encode call that got past validation and returned has invoked
\* EncodeFrame exactly once, as its last engine operation and with that call's
\* picture, and what it returns is made of that invocation's output; an encode
\* call that was rejected, and every other call, has invoked it zero times and
\* has neither a picture nor an engine output.  Over the whole run the number
\* of validated encode calls that returned equals the number of invocations.
C18_OneEngineEncodePerValidatedCall ==
    /\ unmatched = 0
    /\ pc = "returned" =>
         /\ Count(ops, "EncodeFrame") = IF Validated THEN 1 ELSE 0
         /\ Validated
              => /\ ops[Len(ops)] = "EncodeFrame"
                 /\ info.ret \in {"cmResultSuccess", "cmResultFail"}
                 /\ pic = [iPicWidth |-> seen.width, iPicHeight |-> seen.height]
                 /\ ret = H264_SUCCESS
                      => out_size = IF info.eFrameType = "videoFrameTypeSkip"
                                    THEN 0 ELSE Produced(info.layers)
         /\ ~Validated => info = NoInfo /\ pic = NoPic /\ OutputsUntouched

C18_Witness ==
    /\ Returned("encode") /\ Validated /\ arg.h \in handles
    /\ ops = <<"EncodeFrame">> /\ info.eFrameType = "videoFrameTypeSkip"
    /\ ret = H264_SUCCESS /\ out_size = 0 /\ Produced(info.layers) > 0

\* --------------------------------------------------------------------- C19
\* C19: every memcpy of an encode call lies inside the declared capacity:
\* its offset is not negative and offset plus length is at most out_buf_size,
\* and the copies follow one another without a gap; no byte beyond the
\* declared capacity changes.  When encode returns
\* H264_ERROR_OUTPUT_BUFFER_TOO_SMALL the frame's bytes exceed the capacity and
\* nothing was copied, so it is the upfront check that failed; once a layer
\* was copied the call returns success with every layer copied.
C19_CopiesStayInsideTheBuffer ==
    (op = "encode" /\ pc # "idle") =>
        /\ \A i \in 1..Len(copies) :
             /\ copies[i].offset >= 0 /\ copies[i].n >= 0
             /\ copies[i].offset + copies[i].n <= arg.cap
             /\ copies[i].offset = IF i = 1 THEN 0
                                   ELSE copies[i - 1].offset + copies[i - 1].n
        /\ \A j \in 1..BufLen : out_buf[j] # CallerOut.buf[j] => j <= arg.cap
        /\ (pc = "returned" /\ ret = H264_ERROR_OUTPUT_BUFFER_TOO_SMALL)
             => /\ copies = <<>> /\ is_keyframe = 0
                /\ Produced(info.layers) > arg.cap
        /\ copies # <<>>
             => /\ pc = "returned" /\ ret = H264_SUCCESS
                /\ Len(copies) = Len(info.layers)

C19_Witness ==
    /\ Returned("encode") /\ ret = H264_SUCCESS /\ arg.h \in handles
    /\ Len(copies) = 2 /\ copies[1].n = 0 /\ copies[2].n > 0
    /\ copies[2].offset + copies[2].n = arg.cap
    /\ arg.cap < BufLen

\* --------------------------------------------------------------------- C20
\* C20: after every encode call on an owned handle that got past validation
\* and returned, whether it returned success (for a frame or for a skipped
\* frame), H264_ERROR_ENCODE_FAILED or H264_ERROR_OUTPUT_BUFFER_TOO_SMALL, the
\* handle's force flag is 0 and no request is pending; a request that was
\* pending was handed to the engine before EncodeFrame.
C20_FlagClearAfterValidatedEncode ==
    (Validated /\ pc = "returned" /\ arg.h \in handles) =>
        /\ ret \in {H264_SUCCESS, H264_ERROR_ENCODE_FAILED,
                    H264_ERROR_OUTPUT_BUFFER_TOO_SMALL}
        /\ heap[arg.h].force_idr = 0
        /\ arg.h \notin requested
        /\ seen.force_idr # 0 => ops = <<"ForceIntraFrame", "EncodeFrame">>

C20_Witness ==
    /\ Returned("encode") /\ Validated /\ arg.h \in handles
    /\ seen.force_idr = 1 /\ ret = H264_ERROR_ENCODE_FAILED
    /\ heap[arg.h].force_idr = 0 /\ arg.h \notin requested

====
